---- MODULE Spec2Model ----
(***************************************************************************)
(* Model of md_uploader.py: main() walks the list of archives and, for     *)
(* each, ChapterUploaderProcess.start_chapter_upload drives the remote     *)
(* upload protocol (stale-session probe, session create, image batches,    *)
(* commit).  One action is one iteration of one of the retry loops, or the *)
(* straight-line code between two loops; the response of the remote to     *)
(* each request is an input of the action.                                 *)
(***************************************************************************)
EXTENDS Integers, Sequences, FiniteSets, TLC

\* ---------------------------------------------------------------- bounds
MaxZips == 2
MaxImages == 4
\* config "number_of_images_upload" (default 10), scaled down
images_upload_session == 3

\* archives of a run and logins of a run when only main's loop is followed
MaxRun == 6
MaxLogins == 2

\* digits of a captured number before the period, and the largest number
\* typed at the language prompt
MaxDigits == 3
MaxAnswer == 4

\* names in a bracketed group string, and entries of an archive
MaxGroups == 2
MaxEntries == 3

\* largest major and minor number of a program version
MaxVersion == 2

\* config "upload_retry", default value
number_upload_retry == 3

\* ------------------------------------------------------------ vocabulary
\* an archive: how FileProcesser.process_zip_name fares on its name ("ok",
\* no match of file_name_regex, no manga id) and its number of image entries
ZipType == [kind : {"ok"}, nimg : 0..MaxImages]
             \cup [kind : {"malformed", "unresolved"}, nimg : {0}]

\* A response of the remote is written as its status code; 200 with a body
\* that convert_json cannot decode is written 299.

Range(s) == {s[k] : k \in 1..Len(s)}

Min(a, b) == IF a < b THEN a ELSE b

Req(r, st) == [req |-> r, status |-> st]

\* time.sleep(ratelimit_time * n), logged between the requests; the status
\* field holds n
Sleep(n) == [req |-> "sleep", status |-> n]

\* what print_error does besides printing: the cooldown on a 429 answer
print_error(st) == IF st = 429 THEN <<Sleep(3)>> ELSE <<>>

VARIABLES
  zips,                         \* zips_to_upload
  index,                        \* main's loop index (1-based)
  pc,                           \* position in main / start_chapter_upload
  authorized,                   \* 'Authorization' in session.headers
  failed_uploads,               \* the shared failed_uploads list
  reported,                     \* what main printed in the final summary
  remote,                       \* id of the session open on the remote, 0 = none
  upload_session_id,            \* start_chapter_upload's local, 0 = unset
  removal_retry,
  chapter_upload_session_retry,
  image_retries,
  commit_retries,
  batch_index,                  \* array_index of the batch being uploaded
  image_batch,                  \* pending original indices of that batch
  images_to_upload_ids,         \* self.images_to_upload_ids
  commit_sent,                  \* archives for which a commit was requested
  page_orders,                  \* pageOrder lists sent for the current archive
  moved,                        \* archives renamed into uploaded_files
  outcome,                      \* per archive, how its processing ended
  exhausted,                    \* current archive hit the image retry ceiling
  probed,                       \* a GET /upload was made since the last begin
  commit_other,                 \* non-401, non-200 commit responses so far
  abort_cause,                  \* exception that ended the run, "" = none
  sent,                         \* requests and sleeps of the last step
  session,                      \* main's transport: object id and header value
  fn,                           \* function applied to arg, "" = none
  arg,                          \* input of that function
  res,                          \* its result
  timer,                        \* check_for_update's Timer
  user_answer,                  \* what the user typed at the update prompt
  zip_resp,                     \* the download of the release archive
  written                       \* files under root_path were overwritten

vars == <<zips, index, pc, authorized, failed_uploads, reported, remote,
          upload_session_id, removal_retry, chapter_upload_session_retry,
          image_retries, commit_retries, batch_index, image_batch,
          images_to_upload_ids, commit_sent, page_orders, moved, outcome,
          exhausted, probed, commit_other, abort_cause, sent, session, fn,
          arg, res, timer, user_answer, zip_resp, written>>

\* followed only by the specifications of main's loop and of the functions
aux == <<session, fn, arg, res, timer, user_answer, zip_resp,
         written>>

\* check_for_update not started: no timer, no answer (an empty tuple, a typed
\* answer is a tuple of one string), nothing downloaded or written
NoUpdate ==
  /\ timer = "none"
  /\ user_answer = <<>>
  /\ zip_resp = "none"
  /\ written = FALSE

\* --------------------------------------------------------------- helpers
\* id the remote gives the session opened by the current attempt
SessionId(i, attempt) == 10 * i + attempt

\* id the remote returns for the image whose originalFileName is i
ServerId(i) == 100 + i

\* python list.insert(i, x): inserts before position i, clamped to the end
ListInsert_Overwrite(s, i, x) ==
  IF i < Len(s) THEN [s EXCEPT ![i + 1] = x] ELSE Append(s, x)

ListInsert(s, i, x) ==
  LET k == Min(i, Len(s))
  IN  SubSeq(s, 1, k) \o <<x>> \o SubSeq(s, k + 1, Len(s))

MinOf(S) == CHOOSE x \in S : \A y \in S : x <= y

\* the loop over succesful_upload_data, in the order the files were sent
RECURSIVE InsertUploaded(_, _)
InsertUploaded(ids, S) ==
  IF S = {} THEN ids
  ELSE LET i == MinOf(S)
       IN  InsertUploaded(ListInsert(ids, i, ServerId(i)), S \ {i})

\* info_list_separate: number of batches and the indices of batch b
NumBatches(n) == (n + images_upload_session - 1) \div images_upload_session

BatchOf(n, b) ==
  {i \in 0..(n - 1) : i \div images_upload_session = b - 1}

\* ------------------------------------------------------------------ Init
\* main() before its loop: the archives found by get_zips_to_upload, a fresh
\* transport without Authorization header, an empty failed_uploads list.  The
\* remote may still hold a session left by an earlier run (id 1).
Init ==
  /\ zips \in UNION {[1..n -> ZipType] : n \in 1..MaxZips}
  /\ index = 1
  /\ pc = "main"
  /\ authorized = FALSE
  /\ failed_uploads = <<>>
  /\ reported = <<>>
  /\ remote \in {0, 1}
  /\ upload_session_id = 0
  /\ removal_retry = 0
  /\ chapter_upload_session_retry = 0
  /\ image_retries = 0
  /\ commit_retries = 0
  /\ batch_index = 0
  /\ image_batch = {}
  /\ images_to_upload_ids = <<>>
  /\ commit_sent = {}
  /\ page_orders = {}
  /\ moved = {}
  /\ outcome = [i \in DOMAIN zips |-> "pending"]
  /\ exhausted = FALSE
  /\ probed = FALSE
  /\ commit_other = 0
  /\ abort_cause = ""
  /\ sent = <<>>
  /\ session = [id |-> 0, auth |-> 0]
  /\ NoUpdate
  /\ fn = ""
  /\ arg = <<>>
  /\ res = <<>>

\* ----------------------------------------------------- pieces of control
\* _create_upload_session's loop body starts with the stale-session probe
create_loop_entry_NoProbe == "begin"

create_loop_entry == "probe"

\* start_chapter_upload leaves the batch loop as soon as a batch failed
batch_loop_breaks_Never(failed) == FALSE

batch_loop_breaks(failed) == failed

\* process_zip_name: False when the name does not match or no manga id is
\* found, and start_chapter_upload then returns at once
process_zip_name_NoSeriesCheck(zip) == zip.kind # "malformed"

process_zip_name(zip) == zip.kind = "ok"

\* _commit_chapter after its loop: the archive is appended to failed_uploads
commit_failed_NotRecorded(failed, zip) == failed

commit_failed(failed, zip) == Append(failed, zip)

\* _upload_images after a round with rejected images: the batch of the next
\* round is what the answer did not report as uploaded
pending_after_Unchanged(image_batch_, uploaded) == image_batch_

pending_after(image_batch_, uploaded) == image_batch_ \ uploaded

\* position after a retry loop's counter was incremented
AfterRetry(count, again, after) ==
  IF count < number_upload_retry THEN again ELSE after

\* start_chapter_upload returned: main's loop goes to the next archive
Returned ==
  /\ pc' = "main"
  /\ index' = index + 1
  /\ abort_cause' = abort_cause

\* an exception left start_chapter_upload and main
Raised(cause) ==
  /\ pc' = "aborted"
  /\ index' = index
  /\ abort_cause' = cause

\* ------------------------------------------------------------- operations
\* main's loop body up to the call of _create_upload_session: a new
\* ChapterUploaderProcess, the name is processed, login if not logged in
StartArchive ==
  /\ pc = "main"
  /\ index <= Len(zips)
  /\ upload_session_id' = 0
  /\ removal_retry' = 0
  /\ chapter_upload_session_retry' = 0
  /\ image_retries' = 0
  /\ commit_retries' = 0
  /\ batch_index' = 0
  /\ image_batch' = {}
  /\ images_to_upload_ids' = <<>>
  /\ exhausted' = FALSE
  /\ probed' = FALSE
  /\ commit_other' = 0
  /\ page_orders' = {}
  /\ \/ /\ ~process_zip_name(zips[index])
        /\ outcome' = [outcome EXCEPT ![index] = zips[index].kind]
        /\ Returned
        /\ sent' = <<>>
        /\ UNCHANGED authorized
     \/ /\ process_zip_name(zips[index])
        /\ authorized
        /\ pc' = create_loop_entry
        /\ sent' = <<>>
        /\ UNCHANGED <<index, outcome, authorized, abort_cause>>
     \/ /\ process_zip_name(zips[index])
        /\ ~authorized
        /\ \E ok \in BOOLEAN :
             IF ok
             THEN /\ authorized' = TRUE
                  /\ pc' = create_loop_entry
                  /\ sent' = <<Req("login", 200)>>
                  /\ UNCHANGED <<index, outcome, abort_cause>>
             ELSE /\ Raised("login")
                  /\ sent' = <<Req("login", 401)>>
                  /\ UNCHANGED <<outcome, authorized>>
  /\ UNCHANGED <<zips, failed_uploads, reported, remote, commit_sent,
                 moved>>
  /\ UNCHANGED aux

\* one iteration of _delete_exising_upload_session's loop
Probe ==
  /\ pc = "probe"
  /\ removal_retry < number_upload_retry
  /\ probed' = TRUE
  /\ \E st \in {200, 299, 401, 404, 429, 500}, ok \in BOOLEAN :
       /\ st \in {200, 299} => remote # 0
       /\ st = 404 => remote = 0
       /\ st # 401 => ok
       /\ IF st = 200
          THEN /\ remote' = 0
               /\ sent' = <<Req("probe", st), Req("delete", 0)>>
               /\ pc' = "begin"
               /\ removal_retry' = 0
               /\ UNCHANGED abort_cause
          ELSE IF st = 404
          THEN /\ sent' = <<Req("probe", st)>>
               /\ pc' = "begin"
               /\ removal_retry' = 0
               /\ UNCHANGED <<remote, abort_cause>>
          ELSE IF st = 401 /\ ~ok
          THEN /\ sent' = <<Req("probe", st), Req("login", 401)>>
               /\ pc' = "aborted"
               /\ abort_cause' = "login"
               /\ UNCHANGED <<remote, removal_retry>>
          ELSE /\ sent' = (IF st = 401
                           THEN <<Req("probe", st), Req("login", 200)>>
                           ELSE <<Req("probe", st)>>) \o <<Sleep(1)>>
               /\ removal_retry' =
                     AfterRetry(removal_retry + 1, removal_retry + 1, 0)
               /\ pc' = AfterRetry(removal_retry + 1, "probe", "begin")
               /\ UNCHANGED <<remote, abort_cause>>
  /\ UNCHANGED <<zips, index, authorized, failed_uploads, reported,
                 upload_session_id, chapter_upload_session_retry,
                 image_retries, commit_retries, batch_index, image_batch,
                 images_to_upload_ids, commit_sent, page_orders, moved,
                 outcome, exhausted, commit_other>>
  /\ UNCHANGED aux

\* start_chapter_upload between _create_upload_session's return and the batch
\* loop: the session id is kept and _get_images_to_upload builds the batches
ImagesRead(sid) ==
  /\ upload_session_id' = sid
  /\ IF NumBatches(zips[index].nimg) = 0
     THEN /\ pc' = "commit"
          /\ batch_index' = 0
          /\ image_batch' = {}
     ELSE /\ pc' = "upload"
          /\ batch_index' = 1
          /\ image_batch' = BatchOf(zips[index].nimg, 1)

\* one iteration of _create_upload_session's loop after the probe: the begin
\* call; on a usable answer start_chapter_upload goes on to read the images
Begin ==
  /\ pc = "begin"
  /\ chapter_upload_session_retry < number_upload_retry
  /\ probed' = FALSE
  /\ \E st \in {200, 299, 401, 429, 500}, ok \in BOOLEAN :
       LET sid == SessionId(index, chapter_upload_session_retry + 1)
           retry == chapter_upload_session_retry + 1
       IN
       /\ st \in {200, 299} => remote = 0
       /\ st # 401 => ok
       /\ remote' = IF st \in {200, 299} THEN sid ELSE remote
       /\ sent' = <<Sleep(1), Req("begin", st)>> \o
                  (IF st = 200 THEN <<>>
                   ELSE IF st = 401 /\ ~ok THEN <<Req("login", 401)>>
                   ELSE (IF st = 401 THEN <<Req("login", 200)>>
                         ELSE IF st = 299 THEN <<>> ELSE print_error(st))
                        \o <<Sleep(1)>>
                        \o (IF retry < number_upload_retry THEN <<>>
                            ELSE <<Sleep(1)>>))
       /\ IF st = 200
          THEN /\ ImagesRead(sid)
               /\ chapter_upload_session_retry' = 0
               /\ UNCHANGED <<index, removal_retry, failed_uploads, outcome,
                              abort_cause>>
          ELSE IF st = 401 /\ ~ok
          THEN /\ Raised("login")
               /\ UNCHANGED <<upload_session_id, batch_index, image_batch,
                              chapter_upload_session_retry, removal_retry,
                              failed_uploads, outcome>>
          ELSE IF retry < number_upload_retry
          THEN /\ chapter_upload_session_retry' = retry
               /\ removal_retry' = 0
               /\ pc' = create_loop_entry
               /\ UNCHANGED <<index, upload_session_id, batch_index,
                              image_batch, failed_uploads, outcome,
                              abort_cause>>
          ELSE /\ chapter_upload_session_retry' = 0
               /\ failed_uploads' = Append(failed_uploads, index)
               /\ outcome' = [outcome EXCEPT ![index] = "create_failed"]
               /\ Returned
               /\ UNCHANGED <<upload_session_id, batch_index, image_batch,
                              removal_retry>>
  /\ UNCHANGED <<zips, authorized, reported, image_retries, commit_retries,
                 images_to_upload_ids, commit_sent, page_orders, moved,
                 exhausted, commit_other>>
  /\ UNCHANGED aux

\* one iteration of _upload_images' loop; when the loop is left, the rest of
\* the body of start_chapter_upload's batch loop and what follows the loop
UploadRound ==
  /\ pc = "upload"
  /\ image_retries < number_upload_retry
  /\ \E st \in {200, 299, 401, 429, 500}, S \in SUBSET image_batch :
       LET done == st = 200 /\ Cardinality(S) = Cardinality(image_batch)
           retries == IF done THEN image_retries ELSE image_retries + 1
           left == done \/ retries >= number_upload_retry
           failed_image_upload == ~done
           more == batch_index < NumBatches(zips[index].nimg)
           next_batch == left /\ more /\ ~batch_loop_breaks(failed_image_upload)
           after_loop == left /\ ~next_batch
       IN
       /\ st # 200 => S = {}
       /\ sent' = <<Req("images", st)>> \o
                  (IF st = 299 THEN <<>>
                   ELSE IF st # 200 THEN print_error(st) \o <<Sleep(1)>>
                   ELSE IF ~done THEN <<Sleep(1)>>
                   ELSE IF ~batch_loop_breaks(failed_image_upload)
                           /\ batch_index % 5 = 0
                   THEN <<Sleep(1)>> ELSE <<>>)
       /\ IF st = 299
          THEN \* convert_json gave None, subscripting it raises TypeError
               /\ pc' = "aborted"
               /\ abort_cause' = "TypeError: NoneType"
               /\ UNCHANGED <<image_retries, image_batch, batch_index,
                              images_to_upload_ids, outcome, exhausted>>
          ELSE /\ images_to_upload_ids' =
                     InsertUploaded(images_to_upload_ids, S)
               /\ exhausted' = (exhausted \/ (left /\ ~done))
               /\ IF next_batch
                  THEN /\ batch_index' = batch_index + 1
                       /\ image_batch' =
                             BatchOf(zips[index].nimg, batch_index + 1)
                       /\ image_retries' = 0
                  ELSE /\ batch_index' = batch_index
                       /\ image_batch' = pending_after(image_batch, S)
                       /\ image_retries' = retries
               /\ IF after_loop /\ failed_image_upload
                  THEN \* _remove_upload_session(self.session, id): TypeError
                       /\ pc' = "aborted"
                       /\ abort_cause' = "TypeError: _remove_upload_session"
                       /\ outcome' = [outcome EXCEPT ![index] = "image_failed"]
                  ELSE /\ pc' = IF after_loop THEN "commit" ELSE "upload"
                       /\ UNCHANGED <<abort_cause, outcome>>
  /\ UNCHANGED <<zips, index, authorized, failed_uploads, reported, remote,
                 upload_session_id, removal_retry,
                 chapter_upload_session_retry, commit_retries,
                 commit_sent, page_orders, moved, probed, commit_other>>
  /\ UNCHANGED aux

\* one iteration of _commit_chapter's loop, and on leaving it the end of
\* start_chapter_upload
Commit ==
  /\ pc = "commit"
  /\ commit_retries < number_upload_retry
  /\ commit_sent' = commit_sent \cup {index}
  /\ page_orders' = page_orders \cup {images_to_upload_ids}
  /\ \E st \in {200, 299, 401, 429, 500}, ok \in BOOLEAN :
       LET retries == commit_retries + 1
           gives_up == retries >= number_upload_retry
           login == IF st = 401
                    THEN <<Req("login", IF ok THEN 200 ELSE 401)>>
                    ELSE <<>>
       IN
       /\ st # 401 => ok
       /\ IF st \in {200, 299}
          THEN /\ sent' = <<Req("commit", st), Sleep(2)>>
               /\ remote' = 0
               /\ moved' = IF st = 200 THEN moved \cup {index} ELSE moved
               /\ outcome' = [outcome EXCEPT ![index] = "committed"]
               /\ Returned
               /\ UNCHANGED <<commit_retries, commit_other, failed_uploads>>
          ELSE IF st = 401 /\ ~ok
          THEN /\ sent' = <<Req("commit", st)>> \o login
               /\ Raised("login")
               /\ UNCHANGED <<remote, moved, outcome, commit_retries,
                              commit_other, failed_uploads>>
          ELSE /\ commit_retries' = retries
               /\ commit_other' = IF st = 401 THEN commit_other
                                  ELSE commit_other + 1
               /\ UNCHANGED moved
               /\ IF gives_up
                  THEN /\ sent' = <<Req("commit", st)>> \o login
                                     \o <<Sleep(1), Req("delete", 0), Sleep(2)>>
                       /\ remote' = IF remote = upload_session_id
                                    THEN 0 ELSE remote
                       /\ failed_uploads' = commit_failed(failed_uploads, index)
                       /\ outcome' = [outcome EXCEPT
                                        ![index] = "commit_failed"]
                       /\ Returned
                  ELSE /\ sent' = <<Req("commit", st)>> \o login
                                     \o <<Sleep(1)>>
                       /\ UNCHANGED <<remote, failed_uploads, outcome, pc,
                                      index, abort_cause>>
  /\ UNCHANGED <<zips, authorized, reported, upload_session_id,
                 removal_retry, chapter_upload_session_retry, image_retries,
                 batch_index, image_batch, images_to_upload_ids, exhausted,
                 probed>>
  /\ UNCHANGED aux

\* main after its loop: the failed uploads are printed
Summary ==
  /\ pc = "main"
  /\ index > Len(zips)
  /\ pc' = "done"
  /\ reported' = failed_uploads
  /\ sent' = <<>>
  /\ UNCHANGED <<zips, index, authorized, failed_uploads, remote,
                 upload_session_id, removal_retry,
                 chapter_upload_session_retry, image_retries, commit_retries,
                 batch_index, image_batch, images_to_upload_ids,
                 commit_sent, page_orders, moved, outcome, exhausted, probed,
                 commit_other, abort_cause>>
  /\ UNCHANGED aux

Next ==
  \/ StartArchive
  \/ Probe
  \/ Begin
  \/ UploadRound
  \/ Commit
  \/ Summary

Spec == Init /\ [][Next]_vars

\* One archive followed to its end.  The program is sequential and every
\* request is answered, so a step that can be taken is taken.
InitArchive == Init /\ Len(zips) = 1

SpecArchive == InitArchive /\ [][Next]_vars /\ WF_vars(Next)

\* -------------------------------------------------- functions on strings
\* Python's None and a present value, for optional regex groups and results
None == <<>>

Some(x) == <<x>>

\* how a call ends
Return(v) == [kind |-> "return", val |-> v]

Raise(e) == [kind |-> "raise", val |-> e]

CharAt(str, i) == SubSeq(str, i, i)

CharsOf(str) == {CharAt(str, i) : i \in 1..Len(str)}

UpperCase == "ABCDEFGHIJKLMNOPQRSTUVWXYZ"

LowerCase == "abcdefghijklmnopqrstuvwxyz"

IsLetter(c) == c \in CharsOf(UpperCase) \cup CharsOf(LowerCase)

\* str.lower()
RECURSIVE lower(_)
lower(str) ==
  IF str = "" THEN ""
  ELSE LET c == Head(str)
           up == {i \in 1..Len(UpperCase) : CharAt(UpperCase, i) = c}
       IN  (IF up = {} THEN c ELSE CharAt(LowerCase, CHOOSE i \in up : TRUE))
             \o lower(Tail(str))

\* a in b, for strings
IsSubstring(a, b) ==
  \E i \in 0..(Len(b) - Len(a)) : SubSeq(b, i + 1, i + Len(a)) = a

\* str.lstrip(c)
RECURSIVE lstrip(_, _)
lstrip(str, c) ==
  IF str # "" /\ Head(str) = c THEN lstrip(Tail(str), c) ELSE str

\* re.split(r'\.|\-', str)
RECURSIVE split(_)
split(str) ==
  LET seps == {i \in 1..Len(str) : CharAt(str, i) \in {".", "-"}}
  IN  IF seps = {} THEN <<str>>
      ELSE LET i == MinOf(seps)
           IN  <<SubSeq(str, 1, i - 1)>> \o split(SubSeq(str, i + 1, Len(str)))

\* sep.join(parts)
RECURSIVE join(_, _)
join(parts, sep) ==
  IF Len(parts) = 0 THEN ""
  ELSE IF Len(parts) = 1 THEN parts[1]
  ELSE parts[1] \o sep \o join(Tail(parts), sep)

\* the static language table
languages == <<
  [english |-> "English", md |-> "en", iso |-> "eng"],
  [english |-> "Japanese", md |-> "ja", iso |-> "jpn"],
  [english |-> "Japanese (Romaji)", md |-> "ja-ro", iso |-> "jpn"],
  [english |-> "Polish", md |-> "pl", iso |-> "pol"],
  [english |-> "Serbo-Croatian", md |-> "sh", iso |-> "hrv"],
  [english |-> "Dutch", md |-> "nl", iso |-> "dut"],
  [english |-> "Italian", md |-> "it", iso |-> "ita"],
  [english |-> "Russian", md |-> "ru", iso |-> "rus"],
  [english |-> "German", md |-> "de", iso |-> "ger"],
  [english |-> "Hungarian", md |-> "hu", iso |-> "hun"],
  [english |-> "French", md |-> "fr", iso |-> "fre"],
  [english |-> "Finnish", md |-> "fi", iso |-> "fin"],
  [english |-> "Vietnamese", md |-> "vi", iso |-> "vie"],
  [english |-> "Greek", md |-> "el", iso |-> "gre"],
  [english |-> "Bulgarian", md |-> "bg", iso |-> "bul"],
  [english |-> "Spanish (Es)", md |-> "es", iso |-> "spa"],
  [english |-> "Portuguese (Br)", md |-> "pt-br", iso |-> "por"],
  [english |-> "Portuguese (Pt)", md |-> "pt", iso |-> "por"],
  [english |-> "Swedish", md |-> "sv", iso |-> "swe"],
  [english |-> "Arabic", md |-> "ar", iso |-> "ara"],
  [english |-> "Danish", md |-> "da", iso |-> "dan"],
  [english |-> "Chinese (Simp)", md |-> "zh", iso |-> "chi"],
  [english |-> "Chinese (Romaji)", md |-> "zh-ro", iso |-> "chi"],
  [english |-> "Bengali", md |-> "bn", iso |-> "ben"],
  [english |-> "Romanian", md |-> "ro", iso |-> "rum"],
  [english |-> "Czech", md |-> "cs", iso |-> "cze"],
  [english |-> "Mongolian", md |-> "mn", iso |-> "mon"],
  [english |-> "Turkish", md |-> "tr", iso |-> "tur"],
  [english |-> "Indonesian", md |-> "id", iso |-> "ind"],
  [english |-> "Korean", md |-> "ko", iso |-> "kor"],
  [english |-> "Korean (Romaji)", md |-> "ko-ro", iso |-> "kor"],
  [english |-> "Spanish (LATAM)", md |-> "es-la", iso |-> "spa"],
  [english |-> "Persian", md |-> "fa", iso |-> "per"],
  [english |-> "Malay", md |-> "ms", iso |-> "may"],
  [english |-> "Thai", md |-> "th", iso |-> "tha"],
  [english |-> "Catalan", md |-> "ca", iso |-> "cat"],
  [english |-> "Filipino", md |-> "tl", iso |-> "fil"],
  [english |-> "Chinese (Trad)", md |-> "zh-hk", iso |-> "chi"],
  [english |-> "Ukrainian", md |-> "uk", iso |-> "ukr"],
  [english |-> "Burmese", md |-> "my", iso |-> "bur"],
  [english |-> "Lithuanian", md |-> "lt", iso |-> "lit"],
  [english |-> "Hebrew", md |-> "he", iso |-> "heb"],
  [english |-> "Hindi", md |-> "hi", iso |-> "hin"],
  [english |-> "Norwegian", md |-> "no", iso |-> "nor"],
  [english |-> "Other", md |-> "NULL", iso |-> "NULL"]
>>

\* re.match(r'^[a-zA-Z\-]{2,5}$', language)
IsShortCode(language) ==
  /\ Len(language) \in 2..5
  /\ \A c \in CharsOf(language) : IsLetter(c) \/ c = "-"

\* FileProcesser._get_language on the captured language group; answer is what
\* the user types at the prompt (None: not a number)
_get_language(language, answer) ==
  IF language = None THEN Return("en")
  ELSE LET tag == language[1]
           available_langs == SelectSeq(languages, LAMBDA l : l.iso = tag)
           languages_match ==
             SelectSeq(languages,
                       LAMBDA l : IsSubstring(lower(tag), lower(l.english)))
       IN  IF lower(tag) \in {"eng", "en"} THEN Return("en")
           ELSE IF Len(tag) < 2 THEN Return("NULL")
           ELSE IF IsShortCode(tag) THEN Return(tag)
           ELSE IF Len(tag) = 3
           THEN (IF Len(available_langs) > 0
                 THEN Return(available_langs[1].md) ELSE Return("NULL"))
           ELSE IF Len(languages_match) > 1
           THEN (IF answer = None THEN Return("NULL")
                 ELSE IF answer[1] \notin 1..Len(languages_match)
                 THEN Return("NULL")
                 ELSE Return(languages_match[answer[1]].md))
           ELSE IF Len(languages_match) = 0 THEN Raise("IndexError")
           ELSE Return(languages_match[1].md)

\* what lstrip('0') leaves, with the empty string replaced by '0'
strip_zeros_KeepEmpty(number) == lstrip(number, "0")

strip_zeros(number) ==
  IF Len(lstrip(number, "0")) = 0 THEN "0" ELSE lstrip(number, "0")

\* the oneshot rule: without a prefix group the chapter number is dropped
oneshot_Never(prefix) == FALSE

oneshot(prefix) == prefix = None

\* FileProcesser._get_chapter_number on the chapter and prefix groups
_get_chapter_number(chapter, prefix) ==
  LET parts == split(chapter[1])
      chapter_number ==
        IF chapter = None THEN None
        ELSE Some(join(<<strip_zeros(parts[1])>> \o Tail(parts), "."))
  IN  IF oneshot(prefix) THEN Return(None) ELSE Return(chapter_number)

\* FileProcesser._get_volume_number on the volume group
_get_volume_number(volume) ==
  IF volume = None THEN Return(None)
  ELSE Return(Some(strip_zeros(volume[1])))

\* Path.suffix of a file name: from its last dot on, if that is not the first
\* character
suffix(name) ==
  LET dots == {i \in 2..Len(name) : CharAt(name, i) = "."}
  IN  IF dots = {} \/ CharAt(name, Len(name)) = "." THEN ""
      ELSE SubSeq(name, CHOOSE i \in dots : \A j \in dots : j <= i, Len(name))

\* Path.with_suffix(ext) on a file name
with_suffix(name, ext) ==
  SubSeq(name, 1, Len(name) - Len(suffix(name))) \o ext

\* _commit_chapter's relocation: the name the archive gets in uploaded_files,
\* given the current content of that folder
uploaded_name(to_upload, listdir) ==
  LET zip_name == to_upload
      zip_extension == suffix(to_upload)
      new_name == IF (zip_name \o zip_extension) \in listdir
                  THEN zip_name \o "{2}" ELSE zip_name
  IN  with_suffix(new_name, zip_extension)

\* Path.rename onto target: an existing file is replaced (POSIX) or
\* FileExistsError is raised (Windows)
rename(target, listdir, platform) ==
  IF target \in listdir /\ platform = "nt"
  THEN Raise("FileExistsError")
  ELSE [kind |-> "return", val |-> target, replaced |-> target \in listdir]

\* the character class [0-9a-fA-F]
HexDigits == CharsOf("0123456789abcdefABCDEF")

\* lengths of the hex runs of uuid_regex, separated by hyphens
uuid_groups == <<8, 4, 4, 4, 12>>

\* str starts with the hex runs of the given lengths, separated by hyphens
RECURSIVE MatchesRuns(_, _)
MatchesRuns(str, runs) ==
  IF Len(runs) = 0 THEN TRUE
  ELSE /\ Len(str) >= runs[1]
       /\ \A i \in 1..runs[1] : CharAt(str, i) \in HexDigits
       /\ IF Len(runs) = 1 THEN TRUE
          ELSE /\ Len(str) > runs[1]
               /\ CharAt(str, runs[1] + 1) = "-"
               /\ MatchesRuns(SubSeq(str, runs[1] + 2, Len(str)), Tail(runs))

\* uuid_regex.fullmatch(str): the whole string has the shape
uuid_regex_fullmatch(str) == Len(str) = 36 /\ MatchesRuns(str, uuid_groups)

\* uuid_regex.match(str): the pattern has no end anchor, so the string only
\* has to start with the shape
uuid_regex_match(str) == MatchesRuns(str, uuid_groups)

\* dict.get(key, None)
get(dict, key) == IF key \in DOMAIN dict THEN Some(dict[key]) ELSE None

\* names_to_ids[kind].get(name, None), None as well when the map has no such
\* kind (the KeyError that is caught)
lookup(names_to_ids, kind, name) ==
  IF kind \in DOMAIN names_to_ids THEN get(names_to_ids[kind], name) ELSE None

\* FileProcesser._get_manga_series on the title group
_get_manga_series(title, names_to_ids) ==
  IF ~uuid_regex_match(title)
  THEN Return(lookup(names_to_ids, "manga", title))
  ELSE Return(Some(title))

\* str.split('+')
RECURSIVE split_plus(_)
split_plus(str) ==
  LET seps == {i \in 1..Len(str) : CharAt(str, i) = "+"}
  IN  IF seps = {} THEN <<str>>
      ELSE LET i == MinOf(seps)
           IN  <<SubSeq(str, 1, i - 1)>>
                 \o split_plus(SubSeq(str, i + 1, Len(str)))

\* str.rstrip() and str.strip(), for blanks
RECURSIVE rstrip(_)
rstrip(str) ==
  IF str # "" /\ CharAt(str, Len(str)) = " "
  THEN rstrip(SubSeq(str, 1, Len(str) - 1)) ELSE str

strip(str) == rstrip(lstrip(str, " "))

\* the loop of _get_groups over groups_array
RECURSIVE resolve_groups(_, _)
resolve_groups(groups_array, names_to_ids) ==
  IF Len(groups_array) = 0 THEN <<>>
  ELSE LET group == groups_array[1]
           group_id == lookup(names_to_ids, "group", group)
       IN  (IF ~uuid_regex_match(group) THEN group_id ELSE <<group>>)
             \o resolve_groups(Tail(groups_array), names_to_ids)

\* FileProcesser._get_groups on the group group; group_fallback_id is the
\* config value, '' when not set
_get_groups(groups_match, names_to_ids, group_fallback_id) ==
  LET split_groups == split_plus(groups_match[1])
      groups_array == [k \in 1..Len(split_groups) |-> strip(split_groups[k])]
      groups == IF groups_match = None THEN <<>>
                ELSE resolve_groups(groups_array, names_to_ids)
  IN  IF Len(groups) = 0
      THEN Return(IF group_fallback_id = "" THEN <<>>
                  ELSE <<group_fallback_id>>)
      ELSE Return(groups)

\* Path(name).name: what follows the last slash
basename(name) ==
  LET slashes == {i \in 1..Len(name) : CharAt(name, i) = "/"}
  IN  IF slashes = {} THEN name
      ELSE SubSeq(name, (CHOOSE i \in slashes : \A j \in slashes : j <= i) + 1,
                  Len(name))

\* list.index(x): position of the first occurrence, from 0
list_index(list, x) == MinOf({k \in 1..Len(list) : list[k] = x}) - 1

\* ChapterUploaderProcess._get_images_to_upload on the archive's infolist (the
\* entry names in stored order, a directory ending with a slash), with the
\* configured batch size: images_to_upload_names, and images_to_upload as the
\* keys of each batch
_get_images_to_upload(info_list, size) ==
  LET info_list_images_only ==
        SelectSeq(info_list,
                  LAMBDA image :
                    /\ CharAt(image, Len(image)) # "/"
                    /\ suffix(basename(image))
                         \in {".png", ".jpg", ".jpeg", ".gif"})
      n == Len(info_list_images_only)
      renamed_file(image) == list_index(info_list_images_only, image)
  IN  [images_to_upload_names |->
         [i \in {renamed_file(info_list_images_only[k]) : k \in 1..n} |->
            basename(info_list_images_only[i + 1])],
       images_to_upload |->
         [b \in 1..((n + size - 1) \div size) |->
            {renamed_file(info_list_images_only[k]) :
               k \in {j \in 1..n : (j - 1) \div size = b - 1}}]]

\* ------------------------------------------------------------ main's loop
\* The loop of main() alone, to follow the transport over a longer run: a call
\* of start_chapter_upload is one step, of which only what main can see is
\* kept (logins made on the transport, failed_uploads, an exception).
InitMain ==
  /\ zips \in {[i \in 1..n |-> [kind |-> "ok", nimg |-> 0]] : n \in 1..MaxRun}
  /\ index = 1
  /\ pc = "main"
  /\ authorized = FALSE
  /\ failed_uploads = <<>>
  /\ reported = <<>>
  /\ remote = 0
  /\ upload_session_id = 0
  /\ removal_retry = 0
  /\ chapter_upload_session_retry = 0
  /\ image_retries = 0
  /\ commit_retries = 0
  /\ batch_index = 0
  /\ image_batch = {}
  /\ images_to_upload_ids = <<>>
  /\ commit_sent = {}
  /\ page_orders = {}
  /\ moved = {}
  /\ outcome = [i \in DOMAIN zips |-> "pending"]
  /\ exhausted = FALSE
  /\ probed = FALSE
  /\ commit_other = 0
  /\ abort_cause = ""
  /\ sent = <<>>
  /\ session = [id |-> 0, auth |-> 0]
  /\ NoUpdate
  /\ fn = ""
  /\ arg = <<>>
  /\ res = <<>>

\* make_session(headers): a new transport object holding the given headers
make_session(id, auth) == [id |-> id, auth |-> auth]

\* the condition under which main replaces the transport
rotation_due_EverySecond(i, s) == i % 2 = 0 /\ s.auth # 0

rotation_due(i, s) == i % 3 = 0 /\ s.auth # 0

\* ChapterUploaderProcess(...).start_chapter_upload() seen from main: each
\* login_to_md puts a new token into the transport's Authorization header
ProcessArchive ==
  /\ pc = "main"
  /\ index <= Len(zips)
  /\ \E logins \in 0..(MaxLogins - session.auth), failed \in BOOLEAN,
        raised \in BOOLEAN :
       /\ session' = [session EXCEPT !.auth = session.auth + logins]
       /\ authorized' = (session.auth + logins # 0)
       /\ sent' = [k \in 1..logins |-> Req("login", 200)]
       /\ failed_uploads' =
             IF failed THEN Append(failed_uploads, index) ELSE failed_uploads
       /\ pc' = IF raised THEN "aborted" ELSE "rotate"
       /\ abort_cause' = IF raised THEN "exception" ELSE abort_cause
  /\ UNCHANGED <<zips, index, reported, remote, upload_session_id,
                 removal_retry, chapter_upload_session_retry, image_retries,
                 commit_retries, batch_index, image_batch,
                 images_to_upload_ids, commit_sent, page_orders, moved,
                 outcome, exhausted, probed, commit_other, fn, arg, res, timer,
                 user_answer, zip_resp, written>>

\* the end of the loop body: every third archive the transport is replaced
Rotate ==
  /\ pc = "rotate"
  /\ session' = IF rotation_due(index, session)
                THEN make_session(session.id + 1, session.auth)
                ELSE session
  /\ pc' = "main"
  /\ index' = index + 1
  /\ sent' = <<>>
  /\ UNCHANGED <<zips, authorized, failed_uploads, reported, remote,
                 upload_session_id, removal_retry,
                 chapter_upload_session_retry, image_retries, commit_retries,
                 batch_index, image_batch, images_to_upload_ids, commit_sent,
                 page_orders, moved, outcome, exhausted, probed, commit_other,
                 abort_cause, fn, arg, res, timer, user_answer, zip_resp,
                 written>>

NextMain ==
  \/ ProcessArchive
  \/ Rotate
  \/ Summary

SpecMain == InitMain /\ [][NextMain]_vars

\* ------------------------------------------------- the functions, applied
\* Each function is applied once to an input drawn from the values its
\* caller can pass: the groups file_name_regex captures, the archive names
\* and the content of the uploaded folder.
LanguageTags ==
  {"en", "eng", "EN", "Eng", "e", "fr", "ja", "jpn", "fre", "xyz", "French",
   "french", "German", "Japanese", "Chinese", "Spanish", "Klingon", "Thai",
   "Romaji", "English"}

DigitChars == {"0", "1", "2", "5", "7"}

RECURSIVE DigitStrings(_)
DigitStrings(n) ==
  IF n = 0 THEN {""}
  ELSE {d \o str : d \in DigitChars, str \in DigitStrings(n - 1)}

\* what the groups (?P<chapter>\d+(?:\.\d)?) and (?P<volume>...) capture
CapturedNumbers ==
  LET ints == UNION {DigitStrings(k) : k \in 1..MaxDigits}
  IN  ints \cup {i \o "." \o d : i \in ints, d \in DigitChars}

\* some of what the group (?P<prefix>...) captures
Prefixes == {"c", "ch", "Ch. ", "Chapter "}

Optional(S) == {None} \cup {Some(x) : x \in S}

ArchiveNames == {"T - c1.zip", "T - c1.cbz", "T - c1.5.zip"}

FolderNames == ArchiveNames \cup {"T - c1.zip.zip", "T - c2.zip"}

UserAnswers == Optional(0..MaxAnswer)

SeriesId == "0a1b2c3d-1111-4222-8333-444455556666"

GroupIdA == "aaaaaaaa-0000-4000-8000-00000000000A"

GroupIdB == "bbbbbbbb-0000-4000-8000-00000000000b"

FallbackId == "ffffffff-0000-4000-8000-00000000000f"

\* the name-id map file, complete and without its "group" part
NameIndexes ==
  {[manga |-> [t \in {"Some Manga"} |-> SeriesId],
    group |-> [g \in {"GroupA", "Group B"} |->
                 IF g = "GroupA" THEN GroupIdA ELSE GroupIdB]],
   [manga |-> [t \in {"Some Manga"} |-> SeriesId]]}

\* titles the group (?P<title>.+?) captures
Titles ==
  {"Some Manga", "Other Manga", SeriesId, SeriesId \o " Some Manga",
   SeriesId \o "0", "0a1b2c3d-1111"}

\* names between the plus signs of the group (?P<group>.+)
GroupNames ==
  LET names == {"GroupA", "Group B", "Nobody", GroupIdB,
                GroupIdA \o " Scans"}
  IN  names \cup {" " \o g \o " " : g \in names}

RECURSIVE GroupStrings(_)
GroupStrings(n) ==
  IF n = 1 THEN GroupNames
  ELSE {g \o "+" \o str : g \in GroupNames, str \in GroupStrings(n - 1)}

\* config "group_fallback_id"
Fallbacks == {"", FallbackId}

\* entries of an archive
EntryNames == {"1.png", "2.png", "10.png", "p/11.jpg", "notes.txt", "p/"}

\* the orders in which an archive can store some of these entries
InfoLists ==
  {s \in UNION {[1..n -> EntryNames] : n \in 0..MaxEntries} :
     \A i, j \in DOMAIN s : i # j => s[i] # s[j]}

\* every variable of the upload protocol, at rest
Idle ==
  /\ zips = <<>>
  /\ index = 1
  /\ authorized = FALSE
  /\ failed_uploads = <<>>
  /\ reported = <<>>
  /\ remote = 0
  /\ upload_session_id = 0
  /\ removal_retry = 0
  /\ chapter_upload_session_retry = 0
  /\ image_retries = 0
  /\ commit_retries = 0
  /\ batch_index = 0
  /\ image_batch = {}
  /\ images_to_upload_ids = <<>>
  /\ commit_sent = {}
  /\ page_orders = {}
  /\ moved = {}
  /\ outcome = <<>>
  /\ exhausted = FALSE
  /\ probed = FALSE
  /\ commit_other = 0
  /\ abort_cause = ""
  /\ sent = <<>>
  /\ session = [id |-> 0, auth |-> 0]
  /\ NoUpdate

InitFn ==
  /\ Idle
  /\ pc = "call"
  /\ res = <<>>
  /\ \/ fn = "_get_language" /\ arg \in Optional(LanguageTags)
     \/ fn = "_get_chapter_number"
          /\ arg \in [chapter : Optional(CapturedNumbers),
                      prefix : Optional(Prefixes)]
     \/ fn = "_get_volume_number" /\ arg \in Optional(CapturedNumbers)
     \/ fn = "rename"
          /\ arg \in [to_upload : ArchiveNames, listdir : SUBSET FolderNames]
     \/ fn = "_get_manga_series"
          /\ arg \in [title : Titles, names_to_ids : NameIndexes]
     \/ fn = "_get_groups"
          /\ arg \in [group : Optional(UNION {GroupStrings(n) :
                                                n \in 1..MaxGroups}),
                      names_to_ids : NameIndexes,
                      group_fallback_id : Fallbacks]
     \/ fn = "_get_images_to_upload"
          /\ arg \in InfoLists

\* the call returns or raises; nothing else changes
Called(f, result) ==
  /\ pc = "call"
  /\ fn = f
  /\ res' = result
  /\ pc' = "returned"
  /\ UNCHANGED <<zips, index, authorized, failed_uploads, reported, remote,
                 upload_session_id, removal_retry,
                 chapter_upload_session_retry, image_retries, commit_retries,
                 batch_index, image_batch, images_to_upload_ids, commit_sent,
                 page_orders, moved, outcome, exhausted, probed, commit_other,
                 abort_cause, sent, session, fn, arg, timer, user_answer,
                 zip_resp,
                 written>>

GetLanguage ==
  \E answer \in UserAnswers :
    Called("_get_language", _get_language(arg, answer))

GetChapterNumber ==
  Called("_get_chapter_number",
         _get_chapter_number(arg.chapter, arg.prefix))

GetVolumeNumber ==
  Called("_get_volume_number", _get_volume_number(arg))

\* the relocation of the archive after a successful commit
MoveUploaded ==
  \E platform \in {"posix", "nt"} :
    Called("rename",
           rename(uploaded_name(arg.to_upload, arg.listdir), arg.listdir,
                  platform))

GetMangaSeries ==
  Called("_get_manga_series", _get_manga_series(arg.title, arg.names_to_ids))

GetGroups ==
  Called("_get_groups",
         _get_groups(arg.group, arg.names_to_ids, arg.group_fallback_id))

GetImagesToUpload ==
  Called("_get_images_to_upload",
         Return(_get_images_to_upload(arg, images_upload_session)))

\* the functions process_zip_name applies to the groups of the match
ParserFns ==
  {"_get_manga_series", "_get_language", "_get_chapter_number",
   "_get_volume_number", "_get_groups"}

\* process_zip_name on the same name again: the function is applied to the
\* same group, the user answering the prompt anew
ProcessAgain ==
  /\ pc = "returned"
  /\ fn \in ParserFns
  /\ \E answer \in UserAnswers :
       res' = CASE fn = "_get_manga_series" ->
                     _get_manga_series(arg.title, arg.names_to_ids)
                [] fn = "_get_language" -> _get_language(arg, answer)
                [] fn = "_get_chapter_number" ->
                     _get_chapter_number(arg.chapter, arg.prefix)
                [] fn = "_get_volume_number" -> _get_volume_number(arg)
                [] fn = "_get_groups" ->
                     _get_groups(arg.group, arg.names_to_ids,
                                 arg.group_fallback_id)
  /\ pc' = "processed again"
  /\ UNCHANGED <<zips, index, authorized, failed_uploads, reported,
                 remote, upload_session_id, removal_retry,
                 chapter_upload_session_retry, image_retries, commit_retries,
                 batch_index, image_batch, images_to_upload_ids, commit_sent,
                 page_orders, moved, outcome, exhausted, probed, commit_other,
                 abort_cause, sent, session, fn, arg, timer, user_answer,
                 zip_resp,
                 written>>

NextFn ==
  \/ GetLanguage
  \/ GetChapterNumber
  \/ GetVolumeNumber
  \/ MoveUploaded
  \/ GetMangaSeries
  \/ GetGroups
  \/ GetImagesToUpload
  \/ ProcessAgain

SpecFn == InitFn /\ [][NextFn]_vars

\* ------------------------------------------------------ check_for_update
\* updater.check_for_update with its two threads: the main thread, whose
\* position is pc, and the thread of the Timer started before the prompt.
\* A version is its major and minor number.
Versions == (0..MaxVersion) \X (0..MaxVersion)

\* remote_version > local_version
VersionGreater(a, b) == a[1] > b[1] \/ (a[1] = b[1] /\ a[2] > b[2])

\* what the user may type at the prompt
TypedAnswers == {"y", "Y", "yes", "1", "true", "n", "no", ""}

\* answer.lower() in ["true", "1", "t", "y", "yes"]
affirmative(typed) == lower(typed) \in {"true", "1", "t", "y", "yes"}

InitUpdate ==
  /\ Idle
  /\ pc = "check"
  /\ fn = "check_for_update"
  /\ arg \in [local_version : Versions, remote_version : Versions,
              ok : BOOLEAN]
  /\ res = <<>>

\* the variables of the upload protocol and of the call harness
others == <<zips, index, authorized, failed_uploads, reported, remote,
            upload_session_id, removal_retry, chapter_upload_session_retry,
            image_retries, commit_retries, batch_index, image_batch,
            images_to_upload_ids, commit_sent, page_orders, moved, outcome,
            exhausted, probed, commit_other, abort_cause, sent, session, fn,
            arg, res>>

\* the latest release is fetched and compared; on a newer one the timer is
\* started and the user is asked
LookForUpdate ==
  /\ pc = "check"
  /\ IF arg.ok /\ VersionGreater(arg.remote_version, arg.local_version)
     THEN timer' = "started" /\ pc' = "input"
     ELSE timer' = timer /\ pc' = "finished"
  /\ UNCHANGED <<user_answer, zip_resp, written>>
  /\ UNCHANGED others

\* the timer's thread, after the timeout: raise_error raises the ValueError
\* in that thread, which ends; the main thread is still inside input()
TimerExpires ==
  /\ timer = "started"
  /\ pc = "input"
  /\ timer' = "expired"
  /\ UNCHANGED <<pc, user_answer, zip_resp, written>>
  /\ UNCHANGED others

\* the user answers: input() returns, the timer is cancelled (without effect
\* on one that has run) and the answer decides
Input ==
  /\ pc = "input"
  /\ \E typed \in TypedAnswers :
       /\ user_answer' = <<typed>>
       /\ pc' = IF affirmative(typed) THEN "download" ELSE "finished"
  /\ timer' = IF timer = "started" THEN "cancelled" ELSE timer
  /\ UNCHANGED <<zip_resp, written>>
  /\ UNCHANGED others

\* the release archive is fetched and, when that succeeds, its files are
\* written over the local ones
Download ==
  /\ pc = "download"
  /\ \E ok \in BOOLEAN :
       /\ zip_resp' = IF ok THEN "ok" ELSE "failed"
       /\ written' = ok
  /\ pc' = "finished"
  /\ UNCHANGED <<timer, user_answer>>
  /\ UNCHANGED others

NextUpdate ==
  \/ LookForUpdate
  \/ TimerExpires
  \/ Input
  \/ Download

SpecUpdate == InitUpdate /\ [][NextUpdate]_vars

\* ================================================================ claims
PerArchiveFailures ==
  {"malformed", "unresolved", "create_failed", "image_failed",
   "commit_failed"}

\* the sessions the remote opened for the create attempts of archive i
SessionsOf(i) == {SessionId(i, a) : a \in 1..number_upload_retry}

Requested(log, r) == \E k \in 1..Len(log) : log[k].req = r

\* C1: every pageOrder list sent by _commit_chapter holds at position i the
\* server id returned for the image whose original index is i.
C1_PageOrderByOriginalIndex ==
  \A p \in page_orders : \A k \in 1..Len(p) : p[k] = ServerId(k - 1)

\* C2: when _upload_images reports failure for a batch, start_chapter_upload
\* deletes the open upload session, appends the archive to failed_uploads and
\* returns normally.
C2_FailedBatchCleanedUp ==
  \A i \in DOMAIN zips :
    outcome[i] = "image_failed" =>
      /\ i \in Range(failed_uploads)
      /\ remote # upload_session_id
      /\ pc # "aborted"

\* C3: once an image batch of the archive reached the retry ceiling with
\* images still pending, no further image batch and no commit request is sent
\* for that archive.
C3_NoRequestAfterExhaustion ==
  [][exhausted => ~Requested(sent', "images") /\ ~Requested(sent', "commit")]_vars

\* C3 witness: the first of two batches reached the ceiling with images pending
C3_Witness ==
  /\ exhausted
  /\ outcome[index] = "image_failed"
  /\ image_batch # {}
  /\ batch_index < NumBatches(zips[index].nimg)

\* C4: an archive without image entries ends in failed_uploads and no commit
\* request is sent for it.
C4_EmptyArchiveFails ==
  \A i \in DOMAIN zips :
    (zips[i].kind = "ok" /\ zips[i].nimg = 0) =>
      /\ i \notin commit_sent
      /\ (i < index => i \in Range(failed_uploads))

\* C5: every POST /upload/begin is preceded, in the same attempt and with no
\* other begin call in between, by at least one GET /upload.
C5_ProbeBeforeEveryBegin ==
  [][Requested(sent', "begin") => probed]_vars

\* C5 witness: the begin call of the last attempt for the second archive
C5_Witness ==
  /\ Requested(sent, "begin")
  /\ index = 2
  /\ pc = "probe"
  /\ chapter_upload_session_retry = number_upload_retry - 1

\* C6: when _create_upload_session gives up, the archive is in failed_uploads
\* and none of the sessions its attempts opened is left open on the remote.
C6_NoSessionLeftAfterCreateFailure ==
  \A i \in DOMAIN zips :
    outcome[i] = "create_failed" =>
      /\ i \in Range(failed_uploads)
      /\ remote \notin SessionsOf(i)

\* C7: at the end of a run every archive that was not committed is in
\* failed_uploads and in the summary main printed.
C7_LedgerComplete ==
  pc = "done" =>
    \A i \in DOMAIN zips :
      outcome[i] # "committed" =>
        i \in Range(failed_uploads) /\ i \in Range(reported)

\* C8: an archive ending in a per-archive failure never aborts the run.
C8_FailureDoesNotAbortRun ==
  pc = "aborted" => outcome[index] \notin PerArchiveFailures

\* C9: when _commit_chapter gives up, the number of non-401, non-200
\* responses it received equals the retry ceiling.
C9_Commit401ConsumesNoRetry ==
  (pc = "main" /\ index > 1 /\ outcome[index - 1] = "commit_failed") =>
    commit_other = number_upload_retry

\* C10: a 401 answer at any remote step is followed by a re-login before the
\* next request, and after the re-login the archive is not failed by that step.
C10_ReloginAndRetryOn401 ==
  \A k \in 1..Len(sent) :
    (sent[k].req # "login" /\ sent[k].status = 401) =>
      /\ k < Len(sent)
      /\ sent[k + 1].req = "login"
      /\ sent[k + 1].status = 200 => pc \notin {"main", "aborted"}

RemoteSteps == {"probe", "begin", "images", "commit"}

\* C11: every 429 answer at a remote step is followed, before the next
\* request, by the cooldown of three times the rate-limit interval.
C11_CooldownAfterEvery429 ==
  \A k \in 1..Len(sent) :
    (sent[k].req \in RemoteSteps /\ sent[k].status = 429) =>
      \E j \in (k + 1)..Len(sent) :
        /\ sent[j] = Sleep(3)
        /\ \A m \in (k + 1)..j : sent[m].req = "sleep"

Count(list, x) == Cardinality({k \in 1..Len(list) : list[k] = x})

\* C12: when _commit_chapter exhausts its retries it sends a DELETE for the
\* session, the archive is in failed_uploads exactly once and was not moved,
\* and the function returns to its caller.
C12_CommitExhaustionCleansUp ==
  /\ \A i \in DOMAIN zips :
       outcome[i] = "commit_failed" =>
         Count(failed_uploads, i) = 1 /\ i \notin moved
  /\ (pc = "main" /\ index > 1 /\ outcome[index - 1] = "commit_failed") =>
       /\ Requested(sent, "delete")
       /\ remote # upload_session_id

\* C12 witness: the commit of the first archive was just given up
C12_Witness ==
  /\ pc = "main"
  /\ index = 2
  /\ outcome[1] = "commit_failed"
  /\ commit_retries = number_upload_retry

AssignedOnce(ids, n) ==
  /\ Len(ids) = n
  /\ \A i \in 0..(n - 1) : Count(ids, ServerId(i)) = 1

\* C15: when the images rejected in round 1 are all accepted in round 2, the
\* batch completes in that round, and once the batches are done the page
\* assignment holds each original index exactly once.
C15_TwoRoundsAssignEveryIndexOnce ==
  /\ [](pc = "commit" =>
          AssignedOnce(images_to_upload_ids, zips[index].nimg))
  /\ [][(/\ pc = "upload"
          /\ image_retries <= 1
          /\ sent'[1] = Req("images", 200)
          /\ \A i \in image_batch :
                ServerId(i) \in Range(images_to_upload_ids'))
         => (pc' = "commit" \/ batch_index' = batch_index + 1)]_vars

\* C15 witness: the last batch of a full archive completed in its second round
C15_Witness ==
  /\ pc = "commit"
  /\ sent = <<Req("images", 200)>>
  /\ image_retries = 1
  /\ zips[index].nimg = MaxImages
  /\ AssignedOnce(images_to_upload_ids, MaxImages)

\* C16: after every third archive main replaces the transport by a fresh one
\* with the same Authorization value and without a login; after any other
\* archive, and while no Authorization header is set, the transport is kept.
C16_RotationEveryThirdArchive ==
  [][IF pc = "rotate"
     THEN /\ ~Requested(sent', "login")
          /\ session'.auth = session.auth
          /\ (index % 3 = 0 /\ session.auth # 0) => session'.id # session.id
          /\ (index % 3 # 0 \/ session.auth = 0) => session'.id = session.id
     ELSE session'.id = session.id]_vars

\* C16 witness: a run of six archives ended after two rotations, logged in
C16_Witness ==
  /\ pc = "done"
  /\ index = 7
  /\ session.id = 2
  /\ session.auth = MaxLogins

Returned_(f) == fn = f /\ pc = "returned"

\* C13: when the uploaded folder already holds a file with the archive's
\* name, the archive is moved under a different name that is not taken, and
\* the move does not fail.
C13_MoveDisambiguates ==
  (Returned_("rename") /\ arg.to_upload \in arg.listdir) =>
    /\ res.kind = "return"
    /\ res.val # arg.to_upload
    /\ res.val \notin arg.listdir

\* C17: _get_language maps "en" and "eng" to "en", passes the short code "fr"
\* through, maps the ISO-639-3 code "jpn" to "ja" and the name "French" to
\* "fr".
C17_LanguageMapping ==
  (Returned_("_get_language") /\ arg # None) =>
    /\ arg[1] \in {"en", "eng"} => res = Return("en")
    /\ arg[1] = "fr" => res = Return("fr")
    /\ arg[1] = "jpn" => res = Return("ja")
    /\ arg[1] = "French" => res = Return("fr")

\* C18: _get_language returns for every captured tag, it never raises.
C18_LanguageTotal ==
  Returned_("_get_language") => res.kind = "return"

AllZeros(str) == \A c \in CharsOf(str) : c = "0"

\* a decimal part without leading zero, or "0"
Canonical(str) == str # "" /\ (Head(str) # "0" \/ str = "0")

\* the part with its leading zeros stripped, "0" when it is all zeros
Normalized(part) ==
  CHOOSE r \in {SubSeq(part, i, Len(part)) : i \in 1..Len(part)} :
    Canonical(r) /\ AllZeros(SubSeq(part, 1, Len(part) - Len(r)))

NormalizedNumber(number) ==
  join([k \in 1..Len(split(number)) |-> Normalized(split(number)[k])], ".")

\* C19: with a prefix group the chapter number is the captured number with
\* each part stripped of its leading zeros (an all-zero part becoming "0")
\* and the parts joined by a period; without a prefix group it is None.
C19_ChapterNumberNormalized ==
  Returned_("_get_chapter_number") =>
    /\ (arg.prefix # None /\ arg.chapter # None) =>
         res = Return(Some(NormalizedNumber(arg.chapter[1])))
    /\ arg.prefix = None => res = Return(None)
    /\ arg = [chapter |-> Some("007"), prefix |-> Some("Ch. ")] =>
         res = Return(Some("7"))
    /\ arg = [chapter |-> Some("05.5"), prefix |-> Some("c")] =>
         res = Return(Some("5.5"))
    /\ arg = [chapter |-> Some("0"), prefix |-> Some("Chapter ")] =>
         res = Return(Some("0"))

\* C19 witness: "c05.5" was normalized
C19_Witness ==
  /\ Returned_("_get_chapter_number")
  /\ arg = [chapter |-> Some("05.5"), prefix |-> Some("c")]
  /\ res = Return(Some("5.5"))

\* C20: the volume number is the captured number with its leading zeros
\* stripped, "0" when nothing is left; without a captured volume it is None.
C20_VolumeNumberNormalized ==
  Returned_("_get_volume_number") =>
    /\ arg = None => res = Return(None)
    /\ arg # None =>
         \E k \in 0..Len(arg[1]) :
           LET rest == SubSeq(arg[1], k + 1, Len(arg[1]))
           IN  /\ AllZeros(SubSeq(arg[1], 1, k))
               /\ rest = "" \/ Head(rest) # "0"
               /\ res = Return(Some(IF rest = "" THEN "0" ELSE rest))
    /\ arg = Some("00") => res = Return(Some("0"))
    /\ arg = Some("12") => res = Return(Some("12"))

\* C20 witness: "(v00)" was normalized
C20_Witness ==
  /\ Returned_("_get_volume_number")
  /\ arg = Some("00")
  /\ res = Return(Some("0"))

\* a string that is, as a whole, 8-4-4-4-12 hex digits with hyphens
IsIdentifier(str) ==
  /\ Len(str) = 36
  /\ \A i \in 1..36 :
       IF i \in {9, 14, 19, 24} THEN CharAt(str, i) = "-"
       ELSE CharAt(str, i) \in CharsOf("0123456789abcdefABCDEF")

\* the identifiers the NameIndex holds for a kind of name
IndexValues(names_to_ids, kind) ==
  IF kind \in DOMAIN names_to_ids
  THEN {names_to_ids[kind][k] : k \in DOMAIN names_to_ids[kind]}
  ELSE {}

\* the trimmed names resolved in order: identifiers kept, indexed names
\* replaced, the others dropped
RECURSIVE ResolvedInOrder(_, _)
ResolvedInOrder(names, names_to_ids) ==
  IF Len(names) = 0 THEN <<>>
  ELSE LET name == strip(names[1])
           known == /\ "group" \in DOMAIN names_to_ids
                    /\ name \in DOMAIN names_to_ids.group
       IN  (IF IsIdentifier(name) THEN <<name>>
            ELSE IF known THEN <<names_to_ids.group[name]>>
            ELSE <<>>)
             \o ResolvedInOrder(Tail(names), names_to_ids)

\* C21: the group list is the bracketed string split on '+', each name
\* trimmed, identifiers kept, names of the NameIndex replaced by their
\* identifier, other names dropped, order preserved; an empty list becomes
\* the configured fallback group, or stays empty without one.
C21_GroupListResolved ==
  Returned_("_get_groups") =>
    LET resolved == IF arg.group = None THEN <<>>
                    ELSE ResolvedInOrder(split_plus(arg.group[1]),
                                         arg.names_to_ids)
    IN  /\ res.kind = "return"
        /\ res.val = IF resolved # <<>> THEN resolved
                     ELSE IF arg.group_fallback_id = "" THEN <<>>
                     ELSE <<arg.group_fallback_id>>

\* C22: processing the same name again, with the same NameIndex and
\* configuration, gives the same series, language, chapter number, volume
\* number and groups as the first time.
C22_ParsingDeterministic ==
  [][(pc = "returned" /\ pc' = "processed again") => res' = res]_vars

Digits == CharsOf("0123456789")

\* value of a string of digits
RECURSIVE DigitsValue(_)
DigitsValue(str) ==
  IF str = "" THEN 0
  ELSE 10 * DigitsValue(SubSeq(str, 1, Len(str) - 1))
         + (CHOOSE d \in 0..9 :
              CharAt("0123456789", d + 1) = CharAt(str, Len(str)))

\* length of the run of digits str starts with
RECURSIVE DigitRun(_)
DigitRun(str) ==
  IF str # "" /\ Head(str) \in Digits THEN 1 + DigitRun(Tail(str)) ELSE 0

\* position of a character in the character set's order
Ord(c) ==
  LET order == " ./0123456789" \o UpperCase \o LowerCase
  IN  CHOOSE i \in 1..Len(order) : CharAt(order, i) = c

\* natural order of names: runs of digits compare as numbers
RECURSIVE NaturalLess(_, _)
NaturalLess(a, b) ==
  IF b = "" THEN FALSE
  ELSE IF a = "" THEN TRUE
  ELSE IF Head(a) \in Digits /\ Head(b) \in Digits
  THEN LET na == DigitRun(a)
           nb == DigitRun(b)
           va == DigitsValue(SubSeq(a, 1, na))
           vb == DigitsValue(SubSeq(b, 1, nb))
       IN  IF va # vb THEN va < vb
           ELSE NaturalLess(SubSeq(a, na + 1, Len(a)),
                            SubSeq(b, nb + 1, Len(b)))
  ELSE IF Head(a) = Head(b) THEN NaturalLess(Tail(a), Tail(b))
  ELSE Ord(Head(a)) < Ord(Head(b))

\* C23: the original index of each image is its rank in the natural sort of
\* the archive's image names, in whatever order the archive stores them.
C23_IndexIsNaturalRank ==
  Returned_("_get_images_to_upload") =>
    LET names == res.val.images_to_upload_names
    IN  \A i \in DOMAIN names :
          i = Cardinality({j \in DOMAIN names : NaturalLess(names[j], names[i])})

\* C28: a series or group reference let through by the resolver is a value
\* of the NameIndex or is, as a whole, of the identifier shape.
C28_OnlyWholeIdentifiersPass ==
  /\ (Returned_("_get_manga_series") /\ res.val # None) =>
       \/ res.val[1] \in IndexValues(arg.names_to_ids, "manga")
       \/ IsIdentifier(res.val[1])
  /\ Returned_("_get_groups") =>
       \/ res.val = <<arg.group_fallback_id>>
       \/ \A k \in 1..Len(res.val) :
            \/ res.val[k] \in IndexValues(arg.names_to_ids, "group")
            \/ IsIdentifier(res.val[k])

\* a decimal string: an integer part without leading zero unless it is "0",
\* then at most one period followed by digits
WellFormedDecimal(str) ==
  \E k \in 1..Len(str) :
    LET int == SubSeq(str, 1, k)
        frac == SubSeq(str, k + 1, Len(str))
    IN  /\ CharsOf(int) \subseteq Digits
        /\ Head(int) # "0" \/ int = "0"
        /\ \/ frac = ""
           \/ /\ Len(frac) >= 2
              /\ Head(frac) = "."
              /\ CharsOf(Tail(frac)) \subseteq Digits

\* C29: every chapter number and volume number the parser produces, other
\* than None, is a well-formed decimal string.
C29_NumbersWellFormed ==
  (pc = "returned" /\ fn \in {"_get_chapter_number", "_get_volume_number"}
     /\ res.val # None) =>
    WellFormedDecimal(res.val[1])

\* original indices of the images whose server id is in the page assignment
Accepted(ids) ==
  {i \in 0..(MaxImages - 1) : ServerId(i) \in Range(ids)}

\* C24: within _upload_images, after a round answered with 200 the next round
\* submits the pending images minus those the answer reports as uploaded,
\* after any other answer it submits the same images again, and an image
\* already accepted is never part of what is submitted.
C24_PendingShrinksToFailedSubset ==
  /\ [][(pc = "upload" /\ pc' = "upload" /\ batch_index' = batch_index) =>
          LET reported_ == Accepted(images_to_upload_ids')
                             \ Accepted(images_to_upload_ids)
          IN  /\ sent'[1] = Req("images", 200) =>
                   image_batch' = image_batch \ reported_
              /\ sent'[1] # Req("images", 200) =>
                   image_batch' = image_batch /\ reported_ = {}]_vars
  /\ [](pc = "upload" =>
          image_batch \cap Accepted(images_to_upload_ids) = {})

\* C24 witness: a second round is due for part of the first batch
C24_Witness ==
  /\ pc = "upload"
  /\ image_retries = 1
  /\ sent = <<Req("images", 200), Sleep(1)>>
  /\ image_batch # {}
  /\ image_batch # BatchOf(zips[index].nimg, batch_index)
  /\ Accepted(images_to_upload_ids) # {}

\* C25: the processing of an archive, once started, returns, unless a login
\* failed; on the way each create call, probe, batch submission and commit
\* call is made below the retry ceiling and, when its loop goes on, counts
\* against it.
C25_ReturnsWithinRetryCeiling ==
  /\ [][/\ Requested(sent', "probe") =>
             /\ removal_retry < number_upload_retry
             /\ pc' = "probe" => removal_retry' = removal_retry + 1
        /\ Requested(sent', "begin") =>
             /\ chapter_upload_session_retry < number_upload_retry
             /\ pc' \in {"probe", "begin"} =>
                  chapter_upload_session_retry' =
                    chapter_upload_session_retry + 1
        /\ Requested(sent', "images") =>
             /\ image_retries < number_upload_retry
             /\ (pc' = "upload" /\ batch_index' = batch_index) =>
                  image_retries' = image_retries + 1
        /\ Requested(sent', "commit") =>
             /\ commit_retries < number_upload_retry
             /\ pc' = "commit" => commit_retries' = commit_retries + 1]_vars
  /\ (pc \in {"probe", "begin", "upload", "commit"})
       ~> (pc = "main" \/ abort_cause = "login")

\* C26: an image batch is submitted only to the session a create call
\* returned, a commit is sent only when every batch of the archive completed
\* with nothing pending, both name the session that is open on the remote
\* (the remote closes a session on DELETE and gives every new one a new id),
\* and after a DELETE nothing is submitted or committed before a new create
\* call.
C26_SessionLifecycleOrder ==
  /\ [][Requested(sent', "images") =>
          /\ pc = "upload"
          /\ upload_session_id \in SessionsOf(index)
          /\ remote = upload_session_id]_vars
  /\ [][Requested(sent', "commit") =>
          /\ upload_session_id \in SessionsOf(index)
          /\ remote = upload_session_id
          /\ image_batch = {}
          /\ Accepted(images_to_upload_ids) = 0..(zips[index].nimg - 1)]_vars
  /\ [][Requested(sent', "delete") => pc' \notin {"upload", "commit"}]_vars
  /\ [][(pc = "begin" /\ pc' \in {"upload", "commit"}) =>
          /\ remote = 0
          /\ upload_session_id' = remote'
          /\ upload_session_id' # upload_session_id]_vars

\* C26 witness: an archive of two batches went through the whole lifecycle
C26_Witness ==
  /\ pc = "main"
  /\ index = 2
  /\ outcome[1] = "committed"
  /\ zips[1].nimg = MaxImages
  /\ sent = <<Req("commit", 200), Sleep(2)>>

\* C27: an archive was moved into the uploaded folder if and only if its
\* commit call was answered with status 200.
C27_MovedIffCommitAccepted ==
  \A i \in DOMAIN zips : i \in moved <=> outcome[i] = "committed"

\* C30: once the timer has expired before the user answered, the main thread
\* no longer waits for the answer, no release archive is downloaded and no
\* local file is overwritten, whatever is typed afterwards.
C30_ExpiredTimerStopsUpdate ==
  timer = "expired" =>
    /\ pc \notin {"input", "download"}
    /\ zip_resp = "none"
    /\ ~written

====
